---- MODULE Spec2Model ----
(***************************************************************************)
(* The post aggregate of the Cityscope backend (backend/routes/posts.js,   *)
(* backend/models/Post.js): posts with embedded replies and like/dislike   *)
(* arrays, and the handlers that create, edit, delete, reply and react.    *)
(*                                                                         *)
(* Two views of the same handlers are specified.  In Spec every request    *)
(* runs to completion before the next starts.  In ConcSpec a request that  *)
(* reaches Post.findById is split at its awaits: Begin* is the findById    *)
(* and the synchronous code up to the call of save(), Finish is the write  *)
(* that save() / findByIdAndDelete() sends to the database.  Node runs the *)
(* code between two awaits without interruption, so these are the only     *)
(* interleaving points.                                                    *)
(*                                                                         *)
(* Ids are well-formed ObjectIds and the actor is the identity the auth    *)
(* middleware resolved; request bodies carry strings or miss a field.      *)
(***************************************************************************)
EXTENDS Integers, Sequences, FiniteSets, TLC

NumUsers == 2
NumPosts == 1
MaxReplies == 1
NumSlots == 2
ConcPosts == 1
ConcReplies == 3
ThreadReplies == 2
ThreadPosts == 2
ListMax == 3
ReactPosts == 2
MaxTime == 1
MaxPage == 2
MaxLimit == 2

\* content.length > 280 (posts.js 90, 155, 216) and maxlength: 280 (Post.js 12, 45)
MaxContent == 280

Users == 1..NumUsers
PostIds == 1..NumPosts
Slots == 1..NumSlots

(***************************************************************************)
(* Strings.  A content string is a character repeated len times; a missing *)
(* body field is undefined.  Both "" and undefined are falsy in JS.        *)
(***************************************************************************)
Undefined == [def |-> FALSE, len |-> 0, ch |-> ""]
Str(n, c) == [def |-> TRUE, len |-> n, ch |-> c]
Falsy(s) == ~s.def \/ s.len = 0

\* A location string: a name with pad blanks around it; trim: true (Post.js 22)
\* strips the blanks when the document is built.
Loc(pad, name) == [def |-> TRUE, pad |-> pad, name |-> name]
NoLoc == [def |-> FALSE, pad |-> 0, name |-> ""]
LocFalsy(l) == ~l.def \/ (l.pad = 0 /\ l.name = "")
Trim(l) == [l EXCEPT !.pad = 0]

validPostTypes == {"recommendation", "help", "update", "event"}

(***************************************************************************)
(* The store.  posts[i] is the document with _id i, or NoDoc when no such  *)
(* document exists (not yet created, or deleted).  nextId is the next      *)
(* fresh ObjectId: ids are never reused.  now is the clock, in             *)
(* milliseconds, that timestamps: true (Post.js 53) reads for createdAt.   *)
(***************************************************************************)
NoDoc == [missing |-> TRUE]

VARIABLES posts, nextId, last, phase, slots, now

vars == <<posts, nextId, last, phase, slots, now>>

Exists(id) == posts[id] # NoDoc

\* MongooseArray.includes / Array.filter by id value, Array.push
Includes(arr, x) == \E i \in 1..Len(arr) : arr[i] = x
\* a filter whose comparison never matches
WithoutNothing(arr, x) == arr

Without(arr, x) == SelectSeq(arr, LAMBDA y : y # x)

(***************************************************************************)
(* A Mongoose document in memory.  Each array path remembers how it was    *)
(* changed since it was loaded: "$push" (elements appended in place, sent  *)
(* as an atomic $push of the added elements) or "$set" (the path was       *)
(* assigned a different array, sent whole).  Assigning a deep-equal value  *)
(* leaves the path unmodified.                                             *)
(***************************************************************************)
Load(arr) == [val |-> arr, op |-> "none", added |-> <<>>]

\* an unshift: the element goes to the front and the array is sent whole
PushFront(a, x) == [val |-> <<x>> \o a.val, op |-> "$set", added |-> <<>>]

Push(a, x) ==
  [val |-> Append(a.val, x),
   op |-> IF a.op = "$set" THEN "$set" ELSE "$push",
   added |-> IF a.op = "$set" THEN <<>> ELSE Append(a.added, x)]

\* the filtered array is not assigned back
AssignDropped(a, new) == a

Assign(a, new) ==
  IF new = a.val THEN a ELSE [val |-> new, op |-> "$set", added |-> <<>>]

\* Post.findById(id): the stored document, nothing modified
Hydrate(post) ==
  [content |-> post.content, contentMod |-> FALSE,
   likes |-> Load(post.likes), dislikes |-> Load(post.dislikes),
   replies |-> Load(post.replies)]

NoEdit == [content |-> Undefined, contentMod |-> FALSE,
           likes |-> Load(<<>>), dislikes |-> Load(<<>>), replies |-> Load(<<>>)]


(***************************************************************************)
(* Responses (res.status(..).json(..)) and the requests they answer.       *)
(***************************************************************************)
Resp(status, message) ==
  [status |-> status, message |-> message, id |-> 0,
   likes |-> 0, dislikes |-> 0, userReaction |-> "",
   post |-> NoDoc, items |-> <<>>, total |-> 0, totalPages |-> 0, page |-> 0]

NoResp == Resp(0, "")

Req(op, id, user, type) == [op |-> op, id |-> id, user |-> user, type |-> type]

NoReq == Req("", 0, 0, "")

\* the query of a listing request
Query(op, filter, page, limit) ==
  [op |-> op, id |-> 0, user |-> 0, type |-> "",
   filter |-> filter, page |-> page, limit |-> limit]

(***************************************************************************)
(* document.save() of a loaded document (posts.js 171, 233, 307, 337).     *)
(* Mongoose validates the modified paths against the schema, then sends    *)
(* one updateOne for the changes.  The schema (Post.js 52-54) keeps the    *)
(* default versionKey: a whole-array $set carries the version that was     *)
(* read in its filter, a $push does not, and both increment the version.   *)
(* stale says that the stored version is no longer the one that was read.  *)
(* An update that matches no document makes save() throw.                  *)
(***************************************************************************)
ContentOk(c) == c.def /\ c.len >= 1 /\ c.len <= MaxContent

VersionWhere(doc) ==
  doc.likes.op = "$set" \/ doc.dislikes.op = "$set" \/ doc.replies.op = "$set"

VersionInc(doc) ==
  doc.likes.op # "none" \/ doc.dislikes.op # "none" \/ doc.replies.op # "none"

\* a save that does not look at the version
SaveErrorNoVersion(post, doc, stale) ==
  IF doc.contentMod /\ ~ContentOk(doc.content) THEN "ValidationError"
  ELSE IF \E i \in 1..Len(doc.replies.added) : ~ContentOk(doc.replies.added[i].content)
    THEN "ValidationError"
  ELSE IF post = NoDoc THEN "DocumentNotFoundError"
  ELSE ""

SaveError(post, doc, stale) ==
  IF doc.contentMod /\ ~ContentOk(doc.content) THEN "ValidationError"
  ELSE IF \E i \in 1..Len(doc.replies.added) : ~ContentOk(doc.replies.added[i].content)
    THEN "ValidationError"
  ELSE IF post = NoDoc THEN "DocumentNotFoundError"
  ELSE IF VersionWhere(doc) /\ stale THEN "VersionError"
  ELSE ""

\* a save that writes every changed array whole
MergeWhole(stored, a) == IF a.op = "none" THEN stored ELSE a.val

Merge(stored, a) ==
  CASE a.op = "$push" -> stored \o a.added
    [] a.op = "$set" -> a.val
    [] OTHER -> stored

\* a save that writes the whole document as it was loaded and edited
WrittenWhole(post, doc) ==
  [post EXCEPT !.content = doc.content,
               !.likes = doc.likes.val,
               !.dislikes = doc.dislikes.val,
               !.replies = doc.replies.val]

Written(post, doc) ==
  [post EXCEPT !.content = IF doc.contentMod THEN doc.content ELSE @,
               !.likes = Merge(@, doc.likes),
               !.dislikes = Merge(@, doc.dislikes),
               !.replies = Merge(@, doc.replies)]

Save(ps, id, doc, stale) ==
  LET err == SaveError(ps[id], doc, stale)
  IN [posts |-> IF err = "" THEN [ps EXCEPT ![id] = Written(ps[id], doc)] ELSE ps,
      error |-> err,
      inc |-> err = "" /\ VersionInc(doc)]

(***************************************************************************)
(* POST /api/posts (posts.js 81-144)                                       *)
(***************************************************************************)
NewPost(userId, body, imageUrl) ==
  [author |-> userId, content |-> body.content, postType |-> body.postType,
   location |-> Trim(body.location), imageUrl |-> imageUrl,
   likes |-> <<>>, dislikes |-> <<>>, replies |-> <<>>, createdAt |-> now]

\* the validators save() runs on a new document: required, maxlength, enum
NewPostValid(post) ==
  /\ ContentOk(post.content)
  /\ post.postType \in validPostTypes
  /\ ~LocFalsy(post.location)

\* a create that saves the post before it uploads the image
CreateResultSavesFirst(ps, nid, userId, body) ==
  LET same(r) == [posts |-> ps, nextId |-> nid, resp |-> r]
      post == NewPost(userId, body, IF body.file = "image" THEN "secure_url" ELSE "null")
  IN IF body.file = "notImage" THEN same(Resp(500, "Internal server error"))
     ELSE IF Falsy(body.content) \/ body.postType = "" \/ LocFalsy(body.location)
       THEN same(Resp(400, "Please provide all required fields"))
     ELSE IF body.content.len > MaxContent
       THEN same(Resp(400, "Content must be 280 characters or less"))
     ELSE IF body.postType \notin validPostTypes
       THEN same(Resp(400, "Invalid post type"))
     ELSE IF ~NewPostValid(post)
       THEN same(Resp(500, "Server error while creating post"))
     ELSE IF body.file = "uploadFails"
       THEN [posts |-> [ps EXCEPT ![nid] = post], nextId |-> nid + 1,
             resp |-> Resp(500, "Error uploading image")]
     ELSE [posts |-> [ps EXCEPT ![nid] = post], nextId |-> nid + 1,
           resp |-> [Resp(201, "Post created successfully") EXCEPT !.id = nid]]

CreateResult(ps, nid, userId, body) ==
  LET same(r) == [posts |-> ps, nextId |-> nid, resp |-> r]
      post == NewPost(userId, body, IF body.file = "image" THEN "secure_url" ELSE "null")
  IN IF body.file = "notImage" THEN same(Resp(500, "Internal server error"))
     ELSE IF Falsy(body.content) \/ body.postType = "" \/ LocFalsy(body.location)
       THEN same(Resp(400, "Please provide all required fields"))
     ELSE IF body.content.len > MaxContent
       THEN same(Resp(400, "Content must be 280 characters or less"))
     ELSE IF body.postType \notin validPostTypes
       THEN same(Resp(400, "Invalid post type"))
     ELSE IF body.file = "uploadFails"
       THEN same(Resp(500, "Error uploading image"))
     ELSE IF ~NewPostValid(post)
       THEN same(Resp(500, "Server error while creating post"))
     ELSE [posts |-> [ps EXCEPT ![nid] = post], nextId |-> nid + 1,
           resp |-> [Resp(201, "Post created successfully") EXCEPT !.id = nid]]

(***************************************************************************)
(* PUT /api/posts/:id (posts.js 147-182)                                   *)
(***************************************************************************)
\* an update that does not check the owner
UpdateReadAnyone(post, userId, content) ==
  IF Falsy(content) THEN [resp |-> Resp(400, "Content is required"), doc |-> NoEdit]
  ELSE IF content.len > MaxContent
    THEN [resp |-> Resp(400, "Content must be 280 characters or less"), doc |-> NoEdit]
  ELSE IF post = NoDoc THEN [resp |-> Resp(404, "Post not found"), doc |-> NoEdit]
  ELSE [resp |-> NoResp,
        doc |-> [Hydrate(post) EXCEPT !.content = content,
                                      !.contentMod = content # post.content]]

UpdateRead(post, userId, content) ==
  IF Falsy(content) THEN [resp |-> Resp(400, "Content is required"), doc |-> NoEdit]
  ELSE IF content.len > MaxContent
    THEN [resp |-> Resp(400, "Content must be 280 characters or less"), doc |-> NoEdit]
  ELSE IF post = NoDoc THEN [resp |-> Resp(404, "Post not found"), doc |-> NoEdit]
  ELSE IF post.author # userId
    THEN [resp |-> Resp(403, "Not authorized to edit this post"), doc |-> NoEdit]
  ELSE [resp |-> NoResp,
        doc |-> [Hydrate(post) EXCEPT !.content = content,
                                      !.contentMod = content # post.content]]

UpdateAnswer(error) ==
  IF error = "" THEN Resp(200, "Post updated successfully")
  ELSE Resp(500, "Server error while updating post")

(***************************************************************************)
(* DELETE /api/posts/:id (posts.js 185-205)                                *)
(***************************************************************************)
DeleteRead(post, userId) ==
  IF post = NoDoc THEN Resp(404, "Post not found")
  ELSE IF post.author # userId THEN Resp(403, "Not authorized to delete this post")
  ELSE NoResp

\* a deletion that removes nothing
DeletedNothing(ps, id) == ps

\* Post.findByIdAndDelete(id): removes the document if it is (still) there
Deleted(ps, id) == [ps EXCEPT ![id] = NoDoc]

(***************************************************************************)
(* POST /api/posts/:id/replies (posts.js 208-244)                          *)
(***************************************************************************)
\* a reply handler with no length check
ReplyReadNoLimit(post, userId, content) ==
  IF Falsy(content) THEN [resp |-> Resp(400, "Reply content is required"), doc |-> NoEdit]
  ELSE IF post = NoDoc THEN [resp |-> Resp(404, "Post not found"), doc |-> NoEdit]
  ELSE [resp |-> NoResp,
        doc |-> [Hydrate(post) EXCEPT
                   !.replies = Push(@, [author |-> userId, content |-> content])]]

ReplyRead(post, userId, content) ==
  IF Falsy(content) THEN [resp |-> Resp(400, "Reply content is required"), doc |-> NoEdit]
  ELSE IF content.len > MaxContent
    THEN [resp |-> Resp(400, "Reply must be 280 characters or less"), doc |-> NoEdit]
  ELSE IF post = NoDoc THEN [resp |-> Resp(404, "Post not found"), doc |-> NoEdit]
  ELSE [resp |-> NoResp,
        doc |-> [Hydrate(post) EXCEPT
                   !.replies = Push(@, [author |-> userId, content |-> content])]]

ReplyAnswer(error) ==
  IF error = "" THEN Resp(201, "Reply added successfully")
  ELSE Resp(500, "Server error while adding reply")

(***************************************************************************)
(* POST /api/posts/:id/reactions (posts.js 265-320)                        *)
(***************************************************************************)
\* Toggle that adds to one array and leaves the other alone
ToggleKeepsOther(doc, userId, type) ==
  IF type = "like"
  THEN IF Includes(doc.likes.val, userId)
       THEN [doc EXCEPT !.likes = Assign(@, Without(@.val, userId))]
       ELSE [doc EXCEPT !.likes = Push(@, userId)]
  ELSE IF Includes(doc.dislikes.val, userId)
       THEN [doc EXCEPT !.dislikes = Assign(@, Without(@.val, userId))]
       ELSE [doc EXCEPT !.dislikes = Push(@, userId)]

\* Toggle that never takes a reaction back
ToggleNeverOff(doc, userId, type) ==
  LET hasLiked == Includes(doc.likes.val, userId)
      hasDisliked == Includes(doc.dislikes.val, userId)
  IN IF type = "like"
     THEN IF hasLiked THEN doc
          ELSE [doc EXCEPT !.likes = Push(@, userId),
                           !.dislikes = Assign(@, Without(@.val, userId))]
     ELSE IF hasDisliked THEN doc
          ELSE [doc EXCEPT !.dislikes = Push(@, userId),
                           !.likes = Assign(@, Without(@.val, userId))]

Toggle(doc, userId, type) ==
  LET hasLiked == Includes(doc.likes.val, userId)
      hasDisliked == Includes(doc.dislikes.val, userId)
  IN IF type = "like"
     THEN IF hasLiked
          THEN [doc EXCEPT !.likes = Assign(@, Without(@.val, userId))]
          ELSE [doc EXCEPT !.likes = Push(@, userId),
                           !.dislikes = IF hasDisliked
                                        THEN Assign(@, Without(@.val, userId)) ELSE @]
     ELSE IF hasDisliked
          THEN [doc EXCEPT !.dislikes = Assign(@, Without(@.val, userId))]
          ELSE [doc EXCEPT !.dislikes = Push(@, userId),
                           !.likes = IF hasLiked
                                     THEN Assign(@, Without(@.val, userId)) ELSE @]

ReactionRead(post, userId, type) ==
  IF type \notin {"like", "dislike"}
    THEN [resp |-> Resp(400, "Invalid reaction type"), doc |-> NoEdit]
  ELSE IF post = NoDoc THEN [resp |-> Resp(404, "Post not found"), doc |-> NoEdit]
  ELSE [resp |-> NoResp, doc |-> Toggle(Hydrate(post), userId, type)]

\* a response with the two counts in each other's place
ReactionAnswerSwapped(doc, userId, error) ==
  IF error = ""
  THEN [Resp(200, "Reaction updated successfully") EXCEPT
          !.likes = Len(doc.dislikes.val),
          !.dislikes = Len(doc.likes.val),
          !.userReaction = IF Includes(doc.likes.val, userId) THEN "like"
                           ELSE IF Includes(doc.dislikes.val, userId) THEN "dislike"
                           ELSE "null"]
  ELSE Resp(500, "Server error while updating reaction")

ReactionAnswer(doc, userId, error) ==
  IF error = ""
  THEN [Resp(200, "Reaction updated successfully") EXCEPT
          !.likes = Len(doc.likes.val),
          !.dislikes = Len(doc.dislikes.val),
          !.userReaction = IF Includes(doc.likes.val, userId) THEN "like"
                           ELSE IF Includes(doc.dislikes.val, userId) THEN "dislike"
                           ELSE "null"]
  ELSE Resp(500, "Server error while updating reaction")

(***************************************************************************)
(* DELETE /api/posts/:id/reactions (posts.js 323-349)                      *)
(***************************************************************************)
\* a removal that forgets the dislikes
ClearedLikesOnly(doc, userId) ==
  [doc EXCEPT !.likes = Assign(@, Without(@.val, userId))]

Cleared(doc, userId) ==
  [doc EXCEPT !.likes = Assign(@, Without(@.val, userId)),
              !.dislikes = Assign(@, Without(@.val, userId))]

ClearRead(post, userId) ==
  IF post = NoDoc THEN [resp |-> Resp(404, "Post not found"), doc |-> NoEdit]
  ELSE [resp |-> NoResp, doc |-> Cleared(Hydrate(post), userId)]

ClearAnswer(doc, error) ==
  IF error = ""
  THEN [Resp(200, "Reaction removed successfully") EXCEPT
          !.likes = Len(doc.likes.val),
          !.dislikes = Len(doc.dislikes.val),
          !.userReaction = "null"]
  ELSE Resp(500, "Server error while removing reaction")

(***************************************************************************)
(* GET /api/posts/:id (posts.js 63-78) and GET /api/posts/:id/replies      *)
(* (posts.js 247-262).  populate() resolves the author references for      *)
(* display and leaves the identities as they are.                          *)
(***************************************************************************)
GetResult(post) ==
  IF post = NoDoc THEN Resp(404, "Post not found")
  ELSE [Resp(200, "") EXCEPT !.post = post]

RepliesResult(post) ==
  IF post = NoDoc THEN Resp(404, "Post not found")
  ELSE [Resp(200, "") EXCEPT !.items = post.replies]

(***************************************************************************)
(* GET /api/posts (posts.js 33-60) and GET /api/users/:username/posts      *)
(* (users.js 83-112).  A text is a sequence of characters.  The location   *)
(* of the query becomes new RegExp(location, 'i'): a dot stands for any    *)
(* character, letters match in either case, and a pattern that is not a    *)
(* regular expression makes the constructor throw.                         *)
(***************************************************************************)
Text(name) ==
  CASE name = "Pune" -> <<"P", "u", "n", "e">>
    [] name = "Delhi" -> <<"D", "e", "l", "h", "i">>
    [] OTHER -> <<>>

Lower(c) ==
  CASE c = "P" -> "p"
    [] c = "D" -> "d"
    [] OTHER -> c

RegExpThrows(pattern) == \E i \in 1..Len(pattern) : pattern[i] = "("

AtomMatches(p, c) == p = "." \/ Lower(p) = Lower(c)

RegExpTest(pattern, text) ==
  \E off \in 0..(Len(text) - Len(pattern)) :
    \A i \in 1..Len(pattern) : AtomMatches(pattern[i], text[off + i])

\* the filter object of Post.find: no entry for a parameter that is falsy
Filter(location, postType, author) ==
  [location |-> location, postType |-> postType, author |-> author]

Matches(post, filter) ==
  /\ filter.location = <<>> \/ RegExpTest(filter.location, Text(post.location.name))
  /\ filter.postType = "" \/ post.postType = filter.postType
  /\ filter.author = 0 \/ post.author = filter.author

Matching(ps, filter) == {id \in DOMAIN ps : ps[id] # NoDoc /\ Matches(ps[id], filter)}

\* sort({createdAt: -1}): the orders the database may return the documents
\* in; documents with the same createdAt come in any order
Sorted(ps, ids) ==
  {o \in [1..Cardinality(ids) -> ids] :
     /\ \A i, j \in DOMAIN o : i # j => o[i] # o[j]
     /\ \A i, j \in DOMAIN o : i < j => ps[o[i]].createdAt >= ps[o[j]].createdAt}

\* .limit(limit * 1).skip((page - 1) * limit)
Paged(order, page, limit) ==
  [i \in 1..(IF page * limit <= Len(order) THEN limit
              ELSE IF (page - 1) * limit >= Len(order) THEN 0
              ELSE Len(order) - (page - 1) * limit) |-> order[(page - 1) * limit + i]]

\* Math.ceil(total / limit)
Ceil(total, limit) == (total + limit - 1) \div limit

ListResult(ps, filter, page, limit, order, failure) ==
  IF RegExpThrows(filter.location) \/ page < 1 THEN Resp(500, failure)
  ELSE [Resp(200, "") EXCEPT
          !.items = Paged(order, page, limit),
          !.totalPages = Ceil(Len(order), limit),
          !.page = page,
          !.total = Len(order)]

\* User.findOne({username}): the names of the users, and one nobody has
Usernames == Users \cup {0}

(***************************************************************************)
(* What the clients send.                                                  *)
(***************************************************************************)
Contents ==
  {Undefined, Str(0, ""), Str(1, "a"), Str(MaxContent, "b"), Str(MaxContent + 1, "c")}

ReactionTypes == {"like", "dislike", "love"}

Body(content, postType, location, file) ==
  [content |-> content, postType |-> postType, location |-> location, file |-> file]

PlainBody == Body(Str(1, "a"), "help", Loc(0, "Pune"), "none")

GoodBodies == {PlainBody, Body(Str(MaxContent, "b"), "event", Loc(1, "Delhi"), "image")}

BadBodies ==
  {Body(Undefined, "help", Loc(0, "Pune"), "none"),
   Body(Str(0, ""), "help", Loc(0, "Pune"), "none"),
   Body(Str(MaxContent + 1, "c"), "help", Loc(0, "Pune"), "none"),
   Body(Str(1, "a"), "", Loc(0, "Pune"), "none"),
   Body(Str(1, "a"), "bogus", Loc(0, "Pune"), "none"),
   Body(Str(1, "a"), "help", NoLoc, "none"),
   Body(Str(1, "a"), "help", Loc(2, ""), "none"),
   Body(Str(1, "a"), "help", Loc(0, "Pune"), "uploadFails"),
   Body(Str(1, "a"), "help", Loc(0, "Pune"), "notImage")}

CreateBodies == GoodBodies \cup BadBodies

(***************************************************************************)
(* The effective reaction of a user on a post, as the responses compute it *)
(* (posts.js 313-314).                                                     *)
(***************************************************************************)
Effective(post, u) ==
  IF Includes(post.likes, u) THEN "like"
  ELSE IF Includes(post.dislikes, u) THEN "dislike"
  ELSE "none"

(***************************************************************************)
(* State.  slots holds the requests that are between their findById and    *)
(* their write: the request, the document as edited in memory, whether the *)
(* stored version moved since the read, and two observations: was, the     *)
(* user's effective reaction that the request read, and crossed, the users *)
(* whose writes reached the post since.                                    *)
(* last is the request served last and the response it got, with the same  *)
(* observations and nth, 2 when it repeats the successful request before   *)
(* it.  phase follows, for each post and user, the user's latest reactions *)
(* on the post: 1 after a like, 2 after a like then a dislike, else 0.     *)
(***************************************************************************)
Idle == [busy |-> FALSE, req |-> NoReq, doc |-> NoEdit, stale |-> FALSE,
         was |-> "", crossed |-> {}]

Served(req, resp, was, nth, crossed) ==
  [op |-> req.op, id |-> req.id, user |-> req.user, type |-> req.type,
   query |-> IF "filter" \in DOMAIN req
             THEN [filter |-> req.filter, page |-> req.page, limit |-> req.limit]
             ELSE [filter |-> Filter(<<>>, "", 0), page |-> 0, limit |-> 0],
   resp |-> resp, was |-> was, nth |-> nth, crossed |-> crossed]

Init ==
  /\ posts = [i \in PostIds |-> NoDoc]
  /\ nextId = 1
  /\ last = Served(NoReq, NoResp, "", 1, {})
  /\ phase = [i \in PostIds |-> [u \in Users |-> 0]]
  /\ slots = [s \in Slots |-> Idle]
  /\ now = 0

Reacts(req) == req.op \in {"setReaction", "clearReaction"}

\* the effective reaction a request finds when it reads the post
Found(ps, req) ==
  IF Reacts(req) /\ ps[req.id] # NoDoc THEN Effective(ps[req.id], req.user) ELSE ""

Observed(ph, req, resp) ==
  IF resp.status # 200 \/ ~Reacts(req) THEN ph
  ELSE [ph EXCEPT ![req.id][req.user] =
          IF req.type = "like" THEN 1
          ELSE IF req.type = "dislike" /\ @ = 1 THEN 2
          ELSE 0]

Repeats(req, resp) ==
  /\ Req(last.op, last.id, last.user, last.type) = req
  /\ last.resp.status = 200
  /\ resp.status = 200

Answer(req, resp) ==
  /\ last' = Served(req, resp, Found(posts, req), IF Repeats(req, resp) THEN 2 ELSE 1, {})
  /\ phase' = Observed(phase, req, resp)

(***************************************************************************)
(* The handlers, each run to completion.                                   *)
(***************************************************************************)
CreatePost(u, body) ==
  LET r == CreateResult(posts, nextId, u, body)
  IN /\ r.nextId = nextId \/ nextId \in DOMAIN posts
     /\ posts' = r.posts
     /\ nextId' = r.nextId
     /\ Answer(Req("create", 0, u, ""), r.resp)
     /\ UNCHANGED <<slots, now>>

UpdatePost(id, u, content) ==
  LET rd == UpdateRead(posts[id], u, content)
      w == Save(posts, id, rd.doc, FALSE)
  IN /\ posts' = IF rd.resp # NoResp THEN posts ELSE w.posts
     /\ Answer(Req("update", id, u, ""),
               IF rd.resp # NoResp THEN rd.resp ELSE UpdateAnswer(w.error))
     /\ UNCHANGED <<nextId, slots, now>>

DeletePost(id, u) ==
  LET rd == DeleteRead(posts[id], u)
  IN /\ posts' = IF rd # NoResp THEN posts ELSE Deleted(posts, id)
     /\ Answer(Req("delete", id, u, ""),
               IF rd # NoResp THEN rd ELSE Resp(200, "Post deleted successfully"))
     /\ UNCHANGED <<nextId, slots, now>>

AddReply(id, u, content) ==
  LET rd == ReplyRead(posts[id], u, content)
      w == Save(posts, id, rd.doc, FALSE)
  IN /\ IF rd.resp # NoResp THEN TRUE ELSE Len(posts[id].replies) < MaxReplies
     /\ posts' = IF rd.resp # NoResp THEN posts ELSE w.posts
     /\ Answer(Req("addReply", id, u, ""),
               IF rd.resp # NoResp THEN rd.resp ELSE ReplyAnswer(w.error))
     /\ UNCHANGED <<nextId, slots, now>>

SetReaction(id, u, type) ==
  LET rd == ReactionRead(posts[id], u, type)
      w == Save(posts, id, rd.doc, FALSE)
  IN /\ posts' = IF rd.resp # NoResp THEN posts ELSE w.posts
     /\ Answer(Req("setReaction", id, u, type),
               IF rd.resp # NoResp THEN rd.resp ELSE ReactionAnswer(rd.doc, u, w.error))
     /\ UNCHANGED <<nextId, slots, now>>

ClearReaction(id, u) ==
  LET rd == ClearRead(posts[id], u)
      w == Save(posts, id, rd.doc, FALSE)
  IN /\ posts' = IF rd.resp # NoResp THEN posts ELSE w.posts
     /\ Answer(Req("clearReaction", id, u, ""),
               IF rd.resp # NoResp THEN rd.resp ELSE ClearAnswer(rd.doc, w.error))
     /\ UNCHANGED <<nextId, slots, now>>

GetPost(id) ==
  /\ Answer(Req("get", id, 0, ""), GetResult(posts[id]))
  /\ UNCHANGED <<posts, nextId, slots, now>>

ListReplies(id) ==
  /\ Answer(Req("listReplies", id, 0, ""), RepliesResult(posts[id]))
  /\ UNCHANGED <<posts, nextId, slots, now>>

ListPosts(location, postType, page, limit) ==
  LET filter == Filter(location, postType, 0)
  IN /\ \E order \in Sorted(posts, Matching(posts, filter)) :
          Answer(Query("list", filter, page, limit),
                 ListResult(posts, filter, page, limit, order,
                            "Server error while fetching posts"))
     /\ UNCHANGED <<posts, nextId, slots, now>>

ListUserPosts(username, page, limit) ==
  LET filter == Filter(<<>>, "", username)
  IN /\ IF username \notin Users
        THEN Answer(Query("listUserPosts", filter, page, limit),
                    Resp(404, "User not found"))
        ELSE \E order \in Sorted(posts, Matching(posts, filter)) :
               Answer(Query("listUserPosts", filter, page, limit),
                      ListResult(posts, filter, page, limit, order,
                                 "Server error while fetching user posts"))
     /\ UNCHANGED <<posts, nextId, slots, now>>

Next ==
  \/ \E u \in Users, body \in CreateBodies : CreatePost(u, body)
  \/ \E id \in PostIds, u \in Users, c \in Contents : UpdatePost(id, u, c)
  \/ \E id \in PostIds, u \in Users : DeletePost(id, u)
  \/ \E id \in PostIds, u \in Users, c \in Contents : AddReply(id, u, c)
  \/ \E id \in PostIds, u \in Users, t \in ReactionTypes : SetReaction(id, u, t)
  \/ \E id \in PostIds, u \in Users : ClearReaction(id, u)

Spec == Init /\ [][Next]_vars

(***************************************************************************)
(* The handlers with other requests running between their awaits.  A       *)
(* request that is answered before or right after its findById (400, 404,  *)
(* 403) never holds a slot; a new request takes the first free slot.  A    *)
(* write that increments the version makes the documents other requests    *)
(* loaded from the same post stale.                                        *)
(***************************************************************************)
Free(s) == ~slots[s].busy /\ \A t \in Slots : t < s => slots[t].busy

Report(req, resp, was, crossed) ==
  /\ last' = Served(req, resp, was, 1, crossed)
  /\ UNCHANGED phase

Begin(s, req, resp, doc) ==
  /\ Free(s)
  /\ IF resp # NoResp
     THEN Report(req, resp, "", {}) /\ UNCHANGED slots
     ELSE /\ slots' = [slots EXCEPT ![s] =
                         [busy |-> TRUE, req |-> req, doc |-> doc, stale |-> FALSE,
                          was |-> Found(posts, req), crossed |-> {}]]
          /\ UNCHANGED <<last, phase>>
  /\ UNCHANGED <<posts, nextId, now>>

Release(s, wrote, inc) ==
  [t \in Slots |->
     IF t = s THEN Idle
     ELSE IF slots[t].busy /\ slots[t].req.id = slots[s].req.id /\ wrote
       THEN [slots[t] EXCEPT !.stale = @ \/ inc,
                             !.crossed = @ \cup {slots[s].req.user}]
     ELSE slots[t]]

Pending(s, op) == slots[s].busy /\ slots[s].req.op = op

PendingReplies(id) ==
  Cardinality({s \in Slots : Pending(s, "addReply") /\ slots[s].req.id = id})

ConcCreate(u, body) ==
  /\ nextId <= ConcPosts
  /\ CreatePost(u, body)

BeginUpdate(s, id, u, content) ==
  LET rd == UpdateRead(posts[id], u, content)
  IN Begin(s, Req("update", id, u, ""), rd.resp, rd.doc)

BeginDelete(s, id, u) ==
  Begin(s, Req("delete", id, u, ""), DeleteRead(posts[id], u), NoEdit)

BeginReply(s, id, u, content) ==
  LET rd == ReplyRead(posts[id], u, content)
  IN /\ IF rd.resp # NoResp THEN TRUE
        ELSE Len(posts[id].replies) + PendingReplies(id) < ConcReplies
     /\ Begin(s, Req("addReply", id, u, ""), rd.resp, rd.doc)

BeginReaction(s, id, u, type) ==
  LET rd == ReactionRead(posts[id], u, type)
  IN Begin(s, Req("setReaction", id, u, type), rd.resp, rd.doc)

BeginClear(s, id, u) ==
  LET rd == ClearRead(posts[id], u)
  IN Begin(s, Req("clearReaction", id, u, ""), rd.resp, rd.doc)

Saved(s) == Save(posts, slots[s].req.id, slots[s].doc, slots[s].stale)

FinishSave(s, resp) ==
  /\ posts' = Saved(s).posts
  /\ slots' = Release(s, Saved(s).error = "", Saved(s).inc)
  /\ Report(slots[s].req, resp, slots[s].was, slots[s].crossed)
  /\ UNCHANGED <<nextId, now>>

FinishUpdate(s) ==
  /\ Pending(s, "update")
  /\ FinishSave(s, UpdateAnswer(Saved(s).error))

FinishReply(s) ==
  /\ Pending(s, "addReply")
  /\ FinishSave(s, ReplyAnswer(Saved(s).error))

FinishReaction(s) ==
  /\ Pending(s, "setReaction")
  /\ FinishSave(s, ReactionAnswer(slots[s].doc, slots[s].req.user, Saved(s).error))

FinishClear(s) ==
  /\ Pending(s, "clearReaction")
  /\ FinishSave(s, ClearAnswer(slots[s].doc, Saved(s).error))

FinishDelete(s) ==
  /\ Pending(s, "delete")
  /\ posts' = Deleted(posts, slots[s].req.id)
  /\ slots' = Release(s, Exists(slots[s].req.id), FALSE)
  /\ Report(slots[s].req, Resp(200, "Post deleted successfully"), "", slots[s].crossed)
  /\ UNCHANGED <<nextId, now>>

GoodContents == {Str(1, "a"), Str(MaxContent, "b")}

\* reactions racing on a post
ConcNext ==
  \/ \E u \in Users : ConcCreate(u, PlainBody)
  \/ \E s \in Slots, id \in PostIds, u \in Users, t \in {"like", "dislike"} :
       BeginReaction(s, id, u, t)
  \/ \E s \in Slots, id \in PostIds, u \in Users : BeginClear(s, id, u)
  \/ \E s \in Slots : FinishReaction(s)
  \/ \E s \in Slots : FinishClear(s)

ConcSpec == Init /\ [][ConcNext]_vars

\* replies racing on a post
ReplyNext ==
  \/ \E u \in Users, body \in GoodBodies : ConcCreate(u, body)
  \/ \E s \in Slots, id \in PostIds, u \in Users, c \in GoodContents :
       BeginReply(s, id, u, c)
  \/ \E s \in Slots : FinishReply(s)

ReplySpec == Init /\ [][ReplyNext]_vars

\* the deletion of a post racing with edits, replies and reactions on it, and
\* the reads that follow
EditNext ==
  \/ \E u \in Users : ConcCreate(u, PlainBody)
  \/ \E s \in Slots, id \in PostIds, u \in Users, c \in Contents :
       BeginUpdate(s, id, u, c)
  \/ \E s \in Slots, id \in PostIds, u \in Users : BeginDelete(s, id, u)
  \/ \E s \in Slots, id \in PostIds, c \in {Undefined, Str(1, "a")} :
       /\ Exists(id) => Len(posts[id].replies) + PendingReplies(id) < MaxReplies
       /\ BeginReply(s, id, NumUsers, c)
  \/ \E s \in Slots, id \in PostIds, t \in {"like", "love"} :
       BeginReaction(s, id, NumUsers, t)
  \/ \E s \in Slots, id \in PostIds : BeginClear(s, id, NumUsers)
  \/ \E s \in Slots : FinishUpdate(s)
  \/ \E s \in Slots : FinishDelete(s)
  \/ \E s \in Slots : FinishReply(s)
  \/ \E s \in Slots : FinishReaction(s)
  \/ \E s \in Slots : FinishClear(s)
  \/ \E id \in PostIds : GetPost(id)
  \/ \E id \in PostIds : ListReplies(id)
  \/ ListPosts(<<>>, "", 1, 1)
  \/ \E name \in Usernames : ListUserPosts(name, 1, 1)

EditSpec == Init /\ [][EditNext]_vars

\* a thread: replies, edits and reactions racing on the first post, next to
\* other posts that no request touches
ThreadInit ==
  /\ posts = [i \in 1..ThreadPosts |-> NoDoc]
  /\ nextId = 1
  /\ last = Served(NoReq, NoResp, "", 1, {})
  /\ phase = [i \in PostIds |-> [u \in Users |-> 0]]
  /\ slots = [s \in Slots |-> Idle]
  /\ now = 0

ThreadNext ==
  \/ CreatePost(1, PlainBody)
  \/ \E s \in Slots, id \in PostIds, u \in Users :
       /\ Exists(id) => Len(posts[id].replies) + PendingReplies(id) < ThreadReplies
       /\ BeginReply(s, id, u, Str(1, "a"))
  \/ \E s \in Slots, id \in PostIds, u \in Users, c \in GoodContents :
       BeginUpdate(s, id, u, c)
  \/ \E s \in Slots, id \in PostIds : BeginReaction(s, id, NumUsers, "like")
  \/ \E s \in Slots, id \in PostIds : BeginClear(s, id, NumUsers)
  \/ \E s \in Slots : FinishReply(s)
  \/ \E s \in Slots : FinishUpdate(s)
  \/ \E s \in Slots : FinishReaction(s)
  \/ \E s \in Slots : FinishClear(s)
  \/ \E id \in PostIds : ListReplies(id)

ThreadSpec == ThreadInit /\ [][ThreadNext]_vars

(***************************************************************************)
(* The listings over a store of several posts.  Tick is a millisecond      *)
(* passing: posts created between two ticks get the same createdAt.        *)
(***************************************************************************)
ListInit ==
  /\ posts = [i \in 1..ListMax |-> NoDoc]
  /\ nextId = 1
  /\ last = Served(NoReq, NoResp, "", 1, {})
  /\ phase = [i \in PostIds |-> [u \in Users |-> 0]]
  /\ slots = [s \in Slots |-> Idle]
  /\ now = 0

Tick ==
  /\ now < MaxTime
  /\ now' = now + 1
  /\ UNCHANGED <<posts, nextId, last, phase, slots>>

\* the location parameter of a query: absent, letters, a dot, a parenthesis
Patterns == {<<>>, <<"p", "u">>, <<".">>, <<"(">>}

ListNext ==
  \/ \E u \in Users, body \in GoodBodies : CreatePost(u, body)
  \/ Tick
  \/ \E location \in Patterns, postType \in {"", "help"},
        page \in 0..MaxPage, limit \in 1..MaxLimit :
       ListPosts(location, postType, page, limit)
  \/ \E name \in Usernames, page \in 0..MaxPage, limit \in 1..MaxLimit :
       ListUserPosts(name, page, limit)

ListSpec == ListInit /\ [][ListNext]_vars

(***************************************************************************)
(* Reactions and replies, each request run to completion, over a store of  *)
(* several posts.                                                          *)
(***************************************************************************)
ReactInit ==
  /\ posts = [i \in 1..ReactPosts |-> NoDoc]
  /\ nextId = 1
  /\ last = Served(NoReq, NoResp, "", 1, {})
  /\ phase = [i \in 1..ReactPosts |-> [u \in Users |-> 0]]
  /\ slots = [s \in Slots |-> Idle]
  /\ now = 0

ReactNext ==
  \/ \E u \in Users : CreatePost(u, PlainBody)
  \/ \E id \in 1..ReactPosts : AddReply(id, 1, Str(1, "a"))
  \/ \E id \in 1..ReactPosts, u \in Users, t \in ReactionTypes : SetReaction(id, u, t)
  \/ \E id \in 1..ReactPosts, u \in Users : ClearReaction(id, u)

ReactSpec == ReactInit /\ [][ReactNext]_vars


(***************************************************************************)
(* Properties.                                                             *)
(***************************************************************************)
InLikes(id, u) == Includes(posts[id].likes, u)
InDislikes(id, u) == Includes(posts[id].dislikes, u)

\* the table of transitions of the reaction state machine
Table(current, requested) ==
  CASE current = "none" /\ requested = "like" -> "like"
    [] current = "none" /\ requested = "dislike" -> "dislike"
    [] current = "like" /\ requested = "like" -> "none"
    [] current = "like" /\ requested = "dislike" -> "dislike"
    [] current = "dislike" /\ requested = "like" -> "like"
    [] current = "dislike" /\ requested = "dislike" -> "none"

LastReaction(type) ==
  last.op = "setReaction" /\ last.type = type /\ last.resp.status = 200

\* C1: when every reaction request runs to completion before the next starts,
\* no user is in both the likes and the dislikes of a post.
C1_Disjoint ==
  \A id \in PostIds : Exists(id) =>
    \A u \in Users : ~(InLikes(id, u) /\ InDislikes(id, u))

\* a user who liked the post has just disliked it
C1_Witness ==
  /\ LastReaction("dislike") /\ last.was = "like"
  /\ Exists(last.id) /\ InDislikes(last.id, last.user)

\* the step serves this request
Did(op, id, u, type) ==
  last'.op = op /\ last'.id = id /\ last'.user = u /\ last'.type = type

\* the request served last was this one, and it succeeded
Was(op, id, u, type) ==
  last.op = op /\ last.id = id /\ last.user = u /\ last.type = type
  /\ last.resp.status = 200

\* C2: on an existing post setReaction moves the user's effective reaction as
\* the transition table says, for each of the six (current, kind) pairs, and
\* clearReaction moves it to none.
C2_Transitions ==
  [][\A id \in PostIds, u \in Users : Exists(id) =>
       /\ \A k \in {"like", "dislike"} :
            Did("setReaction", id, u, k) =>
              /\ last'.resp.status = 200
              /\ Effective(posts'[id], u) = Table(Effective(posts[id], u), k)
       /\ Did("clearReaction", id, u, "") =>
            /\ last'.resp.status = 200
            /\ Effective(posts'[id], u) = "none"]_vars

\* a user who disliked the post has just liked it
C2_Witness ==
  /\ LastReaction("like") /\ last.was = "dislike"
  /\ Exists(last.id) /\ InLikes(last.id, last.user)

\* C6 as stated: in any reachable state of the post, a like followed at once
\* by a second like of the same user leaves the user with no reaction and out
\* of likes.
C6_Original ==
  [][\A id \in PostIds, u \in Users :
       Was("setReaction", id, u, "like") /\ Did("setReaction", id, u, "like") =>
         /\ Effective(posts'[id], u) = "none"
         /\ ~Includes(posts'[id].likes, u)]_vars

\* C6 amended: when the user is not in likes before the first like, a like
\* followed at once by a second like of the same user leaves the user with no
\* reaction and out of likes.
C6_FromNotLiked ==
  [][\A id \in PostIds, u \in Users :
       /\ Was("setReaction", id, u, "like") /\ last.was # "like"
       /\ Did("setReaction", id, u, "like")
       => /\ last'.resp.status = 200
          /\ Effective(posts'[id], u) = "none"
          /\ ~Includes(posts'[id].likes, u)]_vars

\* the second of two likes in a row, the first of which had put the user in likes
C6_Witness ==
  /\ LastReaction("like") /\ last.nth = 2 /\ last.was = "like"
  /\ Exists(last.id) /\ ~InLikes(last.id, last.user)

\* C7: after a like and a later dislike of a user on a post, with no other
\* reaction request of that user in between or after, the user is in dislikes
\* and not in likes, whatever complete requests other users made meanwhile.
C7_Switch ==
  \A id \in PostIds, u \in Users :
    Exists(id) /\ phase[id][u] = 2 => InDislikes(id, u) /\ ~InLikes(id, u)

\* the user switched and another user reacted afterwards
C7_Witness ==
  /\ last.resp.status = 200 /\ last.op \in {"setReaction", "clearReaction"}
  /\ Exists(last.id)
  /\ \E u \in Users : u # last.user /\ phase[last.id][u] = 2 /\ InDislikes(last.id, u)

\* C8 as stated: applying setReaction or clearReaction twice in succession
\* leaves likes and dislikes the same as applying it once.
C8_Original ==
  [][\A id \in PostIds, u \in Users :
       \A r \in {Req("setReaction", id, u, "like"), Req("setReaction", id, u, "dislike"),
                 Req("clearReaction", id, u, "")} :
         Was(r.op, id, u, r.type) /\ Did(r.op, id, u, r.type) /\ last'.resp.status = 200
         => /\ posts'[id].likes = posts[id].likes
            /\ posts'[id].dislikes = posts[id].dislikes]_vars

\* C8 amended: clearReaction applied twice in succession leaves likes and
\* dislikes the same as applied once; setReaction is a toggle, not idempotent:
\* the second setReaction(p,u,k) in succession reverses u's membership in the
\* array of k, leaves u out of the other array and leaves every other user's
\* entries as they were after the first.
C8_RetryOutcome ==
  [][\A id \in PostIds, u \in Users :
       /\ Was("clearReaction", id, u, "") /\ Did("clearReaction", id, u, "")
          => /\ last'.resp.status = 200
             /\ posts'[id].likes = posts[id].likes
             /\ posts'[id].dislikes = posts[id].dislikes
       /\ \A k \in {"like", "dislike"} :
            Was("setReaction", id, u, k) /\ Did("setReaction", id, u, k)
            => /\ last'.resp.status = 200
               /\ Includes(posts'[id].likes, u) =
                    (k = "like" /\ ~Includes(posts[id].likes, u))
               /\ Includes(posts'[id].dislikes, u) =
                    (k = "dislike" /\ ~Includes(posts[id].dislikes, u))
               /\ Without(posts'[id].likes, u) = Without(posts[id].likes, u)
               /\ Without(posts'[id].dislikes, u) = Without(posts[id].dislikes, u)]_vars

\* a reaction was removed twice in a row while another user's reaction stands
C8_Witness ==
  /\ last.op = "clearReaction" /\ last.nth = 2 /\ last.resp.status = 200
  /\ Exists(last.id)
  /\ \E v \in Users : v # last.user /\ (InLikes(last.id, v) \/ InDislikes(last.id, v))

\* what existence and ownership decide for an update or a delete
Guarded(id, u) ==
  IF ~Exists(id) THEN last'.resp.status = 404 /\ posts' = posts
  ELSE IF posts[id].author # u THEN last'.resp.status = 403 /\ posts' = posts
  ELSE last'.resp.status = 200

StoredContentOk ==
  \A id \in PostIds : Exists(id) =>
    /\ ContentOk(posts[id].content)
    /\ \A i \in 1..Len(posts[id].replies) : ContentOk(posts[id].replies[i].content)

Refused == last'.resp.status = 400 /\ posts' = posts /\ nextId' = nextId

\* C10: create, update and addReply accept a content of length 1 to 280 and
\* refuse an empty or missing content and one of length 281 or more with a
\* 400 before anything is written; every stored post content and reply
\* content has length 1 to 280.
C10_ContentBounds ==
  /\ []StoredContentOk
  /\ [][/\ \A u \in Users, body \in CreateBodies :
             Did("create", 0, u, "") /\ CreatePost(u, body) =>
               /\ ~ContentOk(body.content) => Refused
               /\ body \in GoodBodies =>
                    /\ last'.resp.status = 201
                    /\ posts'[nextId].content = body.content
        /\ \A id \in PostIds, u \in Users, c \in Contents :
             /\ Did("update", id, u, "") /\ UpdatePost(id, u, c) =>
                  /\ ~ContentOk(c) => Refused
                  /\ ContentOk(c) /\ Exists(id) /\ posts[id].author = u =>
                       last'.resp.status = 200 /\ posts'[id].content = c
             /\ Did("addReply", id, u, "") /\ AddReply(id, u, c) =>
                  /\ ~ContentOk(c) => Refused
                  /\ ContentOk(c) /\ Exists(id) =>
                       /\ last'.resp.status = 201
                       /\ posts'[id].replies =
                            Append(posts[id].replies, [author |-> u, content |-> c])]_vars

\* a post holds a content of 280 characters and a longer reply was just refused
C10_Witness ==
  /\ last.op = "addReply" /\ last.resp.message = "Reply must be 280 characters or less"
  /\ \E id \in PostIds : Exists(id) /\ posts[id].content.len = MaxContent


\* slot s writes in this step
Finishes(s) == slots[s].busy /\ ~slots'[s].busy

\* the user's stored reaction is one of the three states of the machine
OneState(id, u) == ~(InLikes(id, u) /\ InDislikes(id, u))

\* C3: when reaction requests of distinct users on one post overlap, a request
\* that reports success leaves every other user's membership in likes and in
\* dislikes as the store held it, and puts its own user (whose stored reaction
\* no request of the same user has touched since the read) where the
\* transition from the state it read leads: no request's change is overwritten.
C3_NoLostReaction ==
  [][\A s \in Slots :
       Finishes(s) /\ Reacts(slots[s].req) /\ last'.resp.status = 200 =>
         LET r == slots[s].req
         IN /\ \A v \in Users \ {r.user} :
                 /\ Includes(posts'[r.id].likes, v) = Includes(posts[r.id].likes, v)
                 /\ Includes(posts'[r.id].dislikes, v) = Includes(posts[r.id].dislikes, v)
            /\ r.user \notin slots[s].crossed /\ OneState(r.id, r.user) =>
                 Effective(posts'[r.id], r.user) =
                   IF r.op = "clearReaction" THEN "none" ELSE Table(slots[s].was, r.type)]_vars

\* a reaction was written after another user's reaction had been written
\* between its read and its write, and both users' reactions are stored
C3_Witness ==
  /\ last.op = "setReaction" /\ last.resp.status = 200
  /\ last.crossed # {} /\ last.user \notin last.crossed
  /\ InLikes(last.id, last.user)
  /\ \E v \in last.crossed : InLikes(last.id, v) \/ InDislikes(last.id, v)

\* C4: when addReply requests on one post overlap, each request that reports
\* success appends its reply once, after every reply stored before, so the
\* stored sequence holds both replies.
C4_BothAppended ==
  [][\A s \in Slots :
       Finishes(s) /\ slots[s].req.op = "addReply" /\ last'.resp.status = 201 =>
         LET r == slots[s].req
         IN /\ Len(slots[s].doc.replies.added) = 1
            /\ slots[s].doc.replies.added[1].author = r.user
            /\ posts'[r.id].replies =
                 Append(posts[r.id].replies, slots[s].doc.replies.added[1])]_vars

\* a reply was written after another reply had been written between its read
\* and its write, on a post that already held a reply
C4_Witness ==
  /\ last.op = "addReply" /\ last.resp.status = 201 /\ last.crossed # {}
  /\ Len(posts[last.id].replies) = 3

\* C5: likes and dislikes of a post are disjoint in every reachable state,
\* also when requests overlap, two requests of the same user included.
C5_DisjointWhenRacing ==
  \A id \in PostIds : Exists(id) =>
    ~\E i \in 1..Len(posts[id].likes), j \in 1..Len(posts[id].dislikes) :
       posts[id].likes[i] = posts[id].dislikes[j]


\* C11: a request that is answered with a failure (400, 403, 404, 500: a
\* validation error, an invalid post type or reaction kind, no such post, not
\* the author, a failed image upload) leaves every post as it was and creates
\* none.
C11_FailureKeepsStore ==
  [][last'.resp.status >= 400 => posts' = posts /\ nextId' = nextId]_vars

\* the image upload of a create failed and the store holds no post
C11_Witness ==
  /\ last.op = "create" /\ last.resp.message = "Error uploading image"
  /\ \A id \in PostIds : ~Exists(id)


IsPrefix(a, b) == Len(a) <= Len(b) /\ SubSeq(b, 1, Len(a)) = a

\* C12: replies are append-only and keep insertion order: in every step that
\* leaves a post in the store (a reply, an edit, a reaction or its removal,
\* overlapping or not) the replies before the step are a prefix of the replies
\* after it; a successful addReply appends its reply, with its author and
\* content, at the end; and listReplies returns the stored replies in their
\* order.
C12_AppendOnly ==
  [][\A id \in PostIds : Exists(id) /\ posts'[id] # NoDoc =>
       /\ IsPrefix(posts[id].replies, posts'[id].replies)
       /\ \A s \in Slots :
            Finishes(s) /\ slots[s].req = Req("addReply", id, slots[s].req.user, "")
            /\ last'.resp.status = 201
            => posts'[id].replies =
                 Append(posts[id].replies,
                        [author |-> slots[s].req.user, content |-> Str(1, "a")])
       /\ Did("listReplies", id, 0, "") =>
            last'.resp.status = 200 /\ last'.resp.items = posts[id].replies]_vars

\* listReplies returned two replies of different authors in the order they
\* were added, after the post was edited and liked
C12_Witness ==
  /\ last.op = "listReplies" /\ last.resp.status = 200
  /\ last.resp.items = <<[author |-> 2, content |-> Str(1, "a")],
                         [author |-> 1, content |-> Str(1, "a")]>>
  /\ posts[last.id].content = Str(MaxContent, "b")
  /\ posts[last.id].likes # <<>>


\* the post with this id was created and is no longer in the store
Gone(id) == id < nextId /\ ~Exists(id)

\* the step answers a request on the post at once, without a write pending
AtOnce(op, id) == slots' = slots /\ last'.op = op /\ last'.id = id

NoListing(id) ==
  last'.op \in {"list", "listUserPosts"} /\ last'.resp.status = 200 =>
    \A i \in DOMAIN last'.resp.items : last'.resp.items[i] # id

\* C13 as stated: once a delete has succeeded the post is absent from the
\* store in every later state, also when a request that read it before the
\* delete saves after it; get, listReplies, addReply, update, setReaction and
\* clearReaction on it are answered 404 and no listing contains it.
C13_Original ==
  [][\A id \in PostIds :
       /\ last'.op = "delete" /\ last'.id = id /\ last'.resp.status = 200
          => posts'[id] = NoDoc
       /\ Gone(id) =>
            /\ posts'[id] = NoDoc
            /\ NoListing(id)
            /\ \A op \in {"get", "listReplies", "addReply", "update",
                           "setReaction", "clearReaction"} :
                 AtOnce(op, id) => last'.resp.status = 404]_vars

\* C13 amended: once a delete has succeeded the post is absent from the store
\* in every later state, also when a request that read it before the delete
\* saves after it; no listing contains it; get, listReplies and clearReaction
\* on it, and update, addReply and setReaction with a valid body (a content
\* of length 1 to 280, the kind like or dislike) are answered 404, while an
\* update, addReply or setReaction with an invalid body is answered 400.
C13_DeletedForGood ==
  [][\A id \in PostIds :
       /\ last'.op = "delete" /\ last'.id = id /\ last'.resp.status = 200
          => posts'[id] = NoDoc
       /\ Gone(id) =>
            /\ posts'[id] = NoDoc
            /\ NoListing(id)
            /\ \A op \in {"get", "listReplies", "clearReaction"} :
                 AtOnce(op, id) => last'.resp.status = 404
            /\ \A s \in Slots, u \in Users :
                 /\ \A c \in Contents :
                      /\ AtOnce("update", id) /\ BeginUpdate(s, id, u, c) =>
                           last'.resp.status = IF ContentOk(c) THEN 404 ELSE 400
                      /\ AtOnce("addReply", id) /\ BeginReply(s, id, u, c) =>
                           last'.resp.status = IF ContentOk(c) THEN 404 ELSE 400
                 /\ \A t \in ReactionTypes :
                      AtOnce("setReaction", id) /\ BeginReaction(s, id, u, t) =>
                        last'.resp.status = IF t \in {"like", "dislike"} THEN 404 ELSE 400]_vars

\* a reply that had read the post before it was deleted saved after the
\* delete: the save failed and the post is not in the store
C13_Witness ==
  /\ last.op = "addReply" /\ last.resp.status = 500
  /\ Gone(last.id)


\* C14: no step changes the author of a post that stays in the store, and an
\* update that reports success changes nothing but the content of its post:
\* author, postType, location, imageUrl, likes, dislikes and replies are as
\* the store held them right before the write, and so is every other post,
\* also when a reaction or a reply was written to the post between the
\* update's read and its write.
C14_OnlyContent ==
  [][/\ \A id \in DOMAIN posts : Exists(id) /\ posts'[id] # NoDoc =>
            posts'[id].author = posts[id].author
     /\ \A s \in Slots :
          Finishes(s) /\ slots[s].req.op = "update" /\ last'.resp.status = 200 =>
            LET id == slots[s].req.id
            IN /\ posts'[id] # NoDoc
               /\ [posts' EXCEPT ![id].content = posts[id].content] = posts]_vars

\* an update changed the content of a post after a reaction or a reply of
\* another user was written between its read and its write; the like and
\* the reply are stored and another post exists
C14_Witness ==
  /\ last.op = "update" /\ last.resp.status = 200 /\ last.crossed # {}
  /\ posts[last.id].content = Str(MaxContent, "b")
  /\ posts[last.id].likes # <<>> /\ posts[last.id].replies # <<>>
  /\ \E id \in DOMAIN posts : id # last.id /\ Exists(id)


\* C15: for every valid input (a content of length 1 to 280, a postType of
\* the enum, a non-empty location) create succeeds and a get of the returned
\* id yields a post with the content, postType, location and author given to
\* create and with empty likes, dislikes and replies.
C15_RoundTrip ==
  [][\A u \in Users, body \in CreateBodies :
       /\ Did("create", 0, u, "") /\ CreatePost(u, body)
       /\ ContentOk(body.content) /\ body.postType \in validPostTypes
       /\ ~LocFalsy(body.location) /\ body.file \in {"none", "image"}
       => /\ last'.resp.status = 201
          /\ LET got == GetResult(posts'[last'.resp.id])
             IN /\ got.status = 200
                /\ got.post.content = body.content
                /\ got.post.postType = body.postType
                /\ got.post.location = body.location
                /\ got.post.author = u
                /\ got.post.likes = <<>> /\ got.post.dislikes = <<>>
                /\ got.post.replies = <<>>]_vars


\* pattern occurs in text, letters compared without regard to case
Contains(pattern, text) ==
  \E off \in 0..(Len(text) - Len(pattern)) :
    \A i \in 1..Len(pattern) : Lower(pattern[i]) = Lower(text[off + i])

\* the posts a filter asks for: the location contains the text given, the
\* postType is the one given, the author is the one given
Wanted(filter) ==
  {id \in DOMAIN posts :
     /\ Exists(id)
     /\ Contains(filter.location, Text(posts[id].location.name))
     /\ filter.postType = "" \/ posts[id].postType = filter.postType
     /\ filter.author = 0 \/ posts[id].author = filter.author}

\* items are the positions (k-1)*s+1 .. min(k*s, N) of order
IsPage(items, order, k, s) ==
  /\ Len(items) = (IF k * s <= Len(order) THEN s
                   ELSE IF (k - 1) * s >= Len(order) THEN 0
                   ELSE Len(order) - (k - 1) * s)
  /\ \A i \in 1..Len(items) : items[i] = order[(k - 1) * s + i]

\* C16: for a store with N posts matching the filter (the location contains
\* the text given, case-insensitively, and/or the postType is the one given
\* for list; the author for listUserPosts), every page k >= 1 and page size
\* s >= 1, the listing returns the posts at positions (k-1)*s+1 .. min(k*s, N)
\* of the matching posts in an order of descending createdAt, with
\* totalCount = N and totalPages = ceil(N/s).
C16_Pagination ==
  [][last'.op \in {"list", "listUserPosts"} /\ last'.query.page >= 1
     /\ last'.resp.status # 404
     => LET q == last'.query
            N == Cardinality(Wanted(q.filter))
        IN /\ last'.resp.status = 200
           /\ last'.resp.total = N
           /\ last'.resp.totalPages * q.limit >= N
           /\ (last'.resp.totalPages - 1) * q.limit < N \/ last'.resp.totalPages = 0
           /\ \E order \in Sorted(posts, Wanted(q.filter)) :
                IsPage(last'.resp.items, order, q.page, q.limit)]_vars

\* the same listing as the one before it, of a store that did not change
SameListing ==
  /\ last.op \in {"list", "listUserPosts"} /\ last'.op = last.op
  /\ last.resp.status = 200 /\ last'.resp.status = 200
  /\ last'.query.filter = last.query.filter
  /\ last'.query.limit = last.query.limit
  /\ posts' = posts

\* C17: over an unchanged store a listing with the same filter, page and page
\* size returns the same sequence again (posts with equal createdAt come in
\* one fixed order), and two different pages have no post in common.
C17_Deterministic ==
  [][SameListing =>
       /\ last'.query.page = last.query.page => last'.resp.items = last.resp.items
       /\ last'.query.page # last.query.page =>
            \A i \in DOMAIN last.resp.items, j \in DOMAIN last'.resp.items :
              last.resp.items[i] # last'.resp.items[j]]_vars


NoDuplicates(arr) == \A i, j \in 1..Len(arr) : i # j => arr[i] # arr[j]

\* C18: likes and dislikes are sets: in every reachable state each user is at
\* most once in the likes of a post and at most once in its dislikes, also
\* when two setReaction requests of one user with one kind overlap.
C18_Sets ==
  \A id \in PostIds : Exists(id) =>
    NoDuplicates(posts[id].likes) /\ NoDuplicates(posts[id].dislikes)


Members(arr) == {arr[i] : i \in 1..Len(arr)}

\* C19: a setReaction or clearReaction of user u on post p, run to completion
\* with no other request in between, changes only u's membership in the
\* likes and dislikes of p: every other user's membership, p's content,
\* author and replies and every other post are unchanged; the counts
\* returned are the sizes of the stored sets after the operation and the
\* userReaction returned is u's stored membership.
C19_ReactionFrame ==
  [][\A id \in DOMAIN posts, u \in Users :
       /\ last'.op \in {"setReaction", "clearReaction"}
       /\ last'.id = id /\ last'.user = u /\ last'.resp.status = 200
       => /\ posts'[id] # NoDoc
          /\ \A v \in Users \ {u} :
               /\ Includes(posts'[id].likes, v) = Includes(posts[id].likes, v)
               /\ Includes(posts'[id].dislikes, v) = Includes(posts[id].dislikes, v)
          /\ posts'[id].content = posts[id].content
          /\ posts'[id].author = posts[id].author
          /\ posts'[id].replies = posts[id].replies
          /\ \A other \in DOMAIN posts \ {id} : posts'[other] = posts[other]
          /\ last'.resp.likes = Cardinality(Members(posts'[id].likes))
          /\ last'.resp.dislikes = Cardinality(Members(posts'[id].dislikes))
          /\ last'.resp.userReaction =
               (IF Includes(posts'[id].likes, u) THEN "like"
                ELSE IF Includes(posts'[id].dislikes, u) THEN "dislike"
                ELSE "null")]_vars

\* a user switched from dislike to like on a post that another user likes
\* and that has a reply, while another post holds a dislike
C19_Witness ==
  /\ LastReaction("like") /\ last.was = "dislike"
  /\ last.resp.likes = 2 /\ last.resp.dislikes = 0
  /\ posts[last.id].replies # <<>>
  /\ \E other \in DOMAIN posts \ {last.id} :
       Exists(other) /\ posts[other].dislikes # <<>>

====
